---- MODULE Spec2Model ----
(***************************************************************************)
(* Model of the reputation router (backend/app/routers/reputation.py) and  *)
(* of the response schemas it builds (backend/app/models/reputation.py,    *)
(* backend/app/models/gear.py).                                            *)
(*                                                                         *)
(* The backing store (pilots, corporations, reputation_changes) is state;  *)
(* one HTTP request at a time walks through the handler: the ownership     *)
(* check is one store read, the reputation query the next one.             *)
(***************************************************************************)
EXTENDS Integers, Sequences, FiniteSets

VARIABLES
    pilots,              \* table "pilots": set of rows [id, user_id]
    corporations,        \* table "corporations": set of rows [id, name]
    reputation_changes,  \* table "reputation_changes": rows in insertion order
    pc,                  \* position of the request in its handler
    endpoint,            \* "reputation" | "history" | "none"
    current_user,        \* the authenticated caller of the request
    pilot_id,            \* the path parameter of the request
    status,              \* HTTP status of the response (0 while running)
    detail,              \* error detail of the response
    body,                \* response body: sequence of schema records
    events,              \* store reads the request has made, in order
    gear                 \* last ExoticGearWithLogInfo object constructed

vars == <<pilots, corporations, reputation_changes, pc, endpoint, current_user,
          pilot_id, status, detail, body, events, gear>>

store == <<pilots, corporations, reputation_changes>>
request == <<pc, endpoint, current_user, pilot_id, status, detail, body, events>>

----------------------------------------------------------------------------
(* Bounds and sample domains *)

MaxLedger == 2

Users == {"u1", "u2"}
PilotIds == {"p1", "p2"}
CorpIds == {"c1", "c2"}
ChangeValues == {-2, 5}
Times == {1, 2}
Endpoints == {"reputation", "history"}

CorpNameOf(c) == IF c = "c1" THEN "Acme" ELSE "Zenith"

----------------------------------------------------------------------------
(* Python values that cross the store boundary with more than one type *)

PyNone == [type |-> "NoneType"]
PyStr(s) == [type |-> "str", value |-> s]
PyDict(f) == [type |-> "dict", items |-> f]
EmptyItems == [k \in {} |-> PyNone]

----------------------------------------------------------------------------
(* Store contents *)

PilotTables ==
    { {[id |-> p, user_id |-> own[p]] : p \in D} :
        own \in [PilotIds -> Users], D \in SUBSET PilotIds }

CorporationTables ==
    { {[id |-> c, name |-> CorpNameOf(c)] : c \in D} : D \in SUBSET CorpIds }

ChangeRows ==
    [pilot_id : PilotIds, corporation_id : CorpIds,
     change_value : ChangeValues, created_at : Times]

WithId(f, i) ==
    [id |-> i, pilot_id |-> f[i].pilot_id, corporation_id |-> f[i].corporation_id,
     change_value |-> f[i].change_value, created_at |-> f[i].created_at]

Ledgers ==
    UNION { { [i \in 1..n |-> WithId(f, i)] : f \in [1..n -> ChangeRows] } :
            n \in 0..MaxLedger }

Range(s) == { s[i] : i \in DOMAIN s }

Perms(S) ==
    { s \in [1..Cardinality(S) -> S] : Range(s) = S }

----------------------------------------------------------------------------
(* The store client: filters, .single(), the embedded join, ordering *)

\* (variant: the lookup made by pilot id alone, the owner filter left out)
pilots_select_any_owner(tbl, pid, uid) ==
    { r \in tbl : r.id = pid }

\* db.table("pilots").select("id").eq("id", ...).eq("user_id", ...)
pilots_select(tbl, pid, uid) ==
    { r \in tbl : r.id = pid /\ r.user_id = uid }

\* .single().execute(): the one matching row as result.data; the request for a
\* single object is an API error when zero rows or several rows match, which
\* the client raises out of execute().  data is a set of at most one row, the
\* empty set standing for None.
single(rows) ==
    IF Cardinality(rows) = 1
    THEN [raised |-> FALSE, data |-> rows]
    ELSE [raised |-> TRUE, data |-> {}]

\* verify_pilot_ownership: result.data is not None, or the error of execute()
verify_pilot_ownership(tbl, pid, uid) ==
    LET result == single(pilots_select(tbl, pid, uid))
    IN  [raised |-> result.raised, value |-> result.data # {}]

\* The pilot_reputation view: one row per (pilot, corporation) pair of the
\* ledger joined to its corporation, carrying the sum of the pair's changes.
RECURSIVE SumOver(_)
SumOver(S) ==
    IF S = {} THEN 0
    ELSE LET r == CHOOSE x \in S : TRUE
         IN  r.change_value + SumOver(S \ {r})

pilot_reputation(ledger, corps) ==
    { [pilot_id |-> g[1], corporation_id |-> g[2].id,
       corporation_name |-> g[2].name,
       reputation_value |->
           SumOver({ r \in Range(ledger) :
                       r.pilot_id = g[1] /\ r.corporation_id = g[2].id })] :
        g \in { h \in PilotIds \X corps :
                  \E r \in Range(ledger) :
                      r.pilot_id = h[1] /\ r.corporation_id = h[2].id } }

\* db.table("pilot_reputation").select("*").eq("pilot_id", ...): the matching
\* rows, in whatever order the store returns them
pilot_reputation_select(ledger, corps, pid) ==
    Perms({ r \in pilot_reputation(ledger, corps) : r.pilot_id = pid })

\* select("*, corporations(name)"): each row with its corporation embedded
\* under the key "corporations": the object {name} of the joined row, or
\* null when no corporation row joins
embed_corporations(r, corps) ==
    [id |-> r.id, pilot_id |-> r.pilot_id, corporation_id |-> r.corporation_id,
     change_value |-> r.change_value, created_at |-> r.created_at,
     corporations |->
        IF \E c \in corps : c.id = r.corporation_id
        THEN PyDict([k \in {"name"} |->
                 PyStr((CHOOSE c \in corps : c.id = r.corporation_id).name)])
        ELSE PyNone]

\* (variant: the order taken ascending, desc left at its default)
order_created_at_asc(S) ==
    { s \in Perms(S) :
        \A i \in 1..(Len(s) - 1) : s[i].created_at <= s[i + 1].created_at }

\* .order("created_at", desc=True): every arrangement of the rows with
\* created_at non-increasing (rows of equal created_at in either order)
order_created_at_desc(S) ==
    { s \in Perms(S) :
        \A i \in 1..(Len(s) - 1) : s[i].created_at >= s[i + 1].created_at }

\* (variant: the history read without its pilot_id filter)
reputation_changes_select_all(ledger, corps, pid) ==
    order_created_at_desc({ embed_corporations(r, corps) : r \in Range(ledger) })

\* db.table("reputation_changes").select(...).eq("pilot_id", ...).order(...)
reputation_changes_select(ledger, corps, pid) ==
    order_created_at_desc(
        { embed_corporations(r, corps) :
            r \in { x \in Range(ledger) : x.pilot_id = pid } })

----------------------------------------------------------------------------
(* Row-to-schema mapping *)

\* (variant: reputation_value declared as a non-negative quantity)
PilotReputation_non_negative(r) ==
    [pilot_id |-> r.pilot_id, corporation_id |-> r.corporation_id,
     corporation_name |-> r.corporation_name,
     reputation_value |-> IF r.reputation_value < 0 THEN 0 ELSE r.reputation_value]

\* PilotReputation(**r)
PilotReputation(r) ==
    [pilot_id |-> r.pilot_id, corporation_id |-> r.corporation_id,
     corporation_name |-> r.corporation_name,
     reputation_value |-> r.reputation_value]

\* r.pop("corporations", {}): the value under the key, or the default
pop_corporations(r) ==
    IF "corporations" \in DOMAIN r THEN r.corporations ELSE PyDict(EmptyItems)

\* .get("name", "Unknown") on the popped value: a dict answers with the value
\* under "name" or the default; None has no attribute get (AttributeError)
get_name(v) ==
    IF v.type = "dict"
    THEN [raised |-> FALSE,
          value |-> IF "name" \in DOMAIN v.items
                    THEN v.items["name"] ELSE PyStr("Unknown")]
    ELSE [raised |-> TRUE, value |-> PyNone]

\* ReputationChangeWithCorp(**r, corporation_name=corp_name): corporation_name
\* is declared str, so any other value fails validation
ReputationChangeWithCorp(r, corp_name) ==
    IF corp_name.type = "str"
    THEN [raised |-> FALSE,
          value |-> [id |-> r.id, pilot_id |-> r.pilot_id,
                     corporation_id |-> r.corporation_id,
                     change_value |-> r.change_value,
                     created_at |-> r.created_at,
                     corporation_name |-> corp_name.value]]
    ELSE [raised |-> TRUE, value |-> <<>>]

\* One turn of the loop body: corp_name, then the schema object
history_entry(r) ==
    LET got == get_name(pop_corporations(r))
    IN  IF got.raised THEN [raised |-> TRUE, value |-> <<>>]
        ELSE ReputationChangeWithCorp(r, got.value)

----------------------------------------------------------------------------
(* Responses *)

NotFound == [status |-> 404, detail |-> "Pilot not found", body |-> <<>>]
ServerError == [status |-> 500, detail |-> "Internal Server Error", body |-> <<>>]
Ok(b) == [status |-> 200, detail |-> "", body |-> b]

\* What the handler does with the result of the ownership check: an error of
\* the check leaves the handler, False raises the 404, True goes on
after_ownership(res) ==
    IF res.raised THEN [next |-> "done", response |-> ServerError]
    ELSE IF ~res.value THEN [next |-> "done", response |-> NotFound]
    ELSE [next |-> "query", response |-> [status |-> 0, detail |-> "", body |-> <<>>]]

\* return [PilotReputation(**r) for r in result.data]
list_pilot_reputation_response(data) ==
    Ok([i \in 1..Len(data) |-> PilotReputation(data[i])])

\* the loop over result.data and the return of changes
list_pilot_reputation_history_response(data) ==
    IF \E i \in 1..Len(data) : history_entry(data[i]).raised
    THEN ServerError
    ELSE Ok([i \in 1..Len(data) |-> history_entry(data[i]).value])

----------------------------------------------------------------------------
(* The gear schema (models/gear.py) *)

\* An optional keyword argument is a set of at most one value: {} when the
\* caller leaves it out.  "None" stands for Python's None among the ids.
GearKwargs ==
    { kw \in [name : {"Blade", "Cloak"},
              description : {{}, {"None"}, {"worn"}},
              notes : {{}, {"None"}, {"gift"}},
              id : {"g1", "g2"},
              pilot_id : PilotIds,
              acquired_log_id : {{}, {"None"}, {"L1"}},
              lost_log_id : {{}, {"None"}, {"L2"}},
              is_lost : {{}, {TRUE}, {FALSE}}] :
        \* a caller that passes is_lost passes whether the gear row is lost
        kw.is_lost \in {{}, {kw.lost_log_id = {"L2"}}} }

field_or_default(arg, default) ==
    IF arg = {} THEN default ELSE CHOOSE x \in arg : TRUE

\* ExoticGearWithLogInfo(**kw): every field is the argument given or the
\* field's declared default; is_lost is a plain field whose default is False
ExoticGearWithLogInfo(kw) ==
    [constructed |-> TRUE,
     name |-> kw.name,
     description |-> field_or_default(kw.description, "None"),
     notes |-> field_or_default(kw.notes, "None"),
     id |-> kw.id,
     pilot_id |-> kw.pilot_id,
     acquired_log_id |-> field_or_default(kw.acquired_log_id, "None"),
     lost_log_id |-> field_or_default(kw.lost_log_id, "None"),
     is_lost |-> field_or_default(kw.is_lost, FALSE)]

NoGear == [constructed |-> FALSE]

----------------------------------------------------------------------------
(* The request state machine *)

NoResponse == [status |-> 0, detail |-> "", body |-> <<>>]

RequestIdle ==
    /\ pc = "idle"
    /\ endpoint = "none"
    /\ current_user = "none"
    /\ pilot_id = "none"
    /\ status = 0
    /\ detail = ""
    /\ body = <<>>
    /\ events = <<>>

Init ==
    /\ pilots \in PilotTables
    /\ corporations \in CorporationTables
    /\ reputation_changes \in Ledgers
    /\ RequestIdle
    /\ gear = NoGear

respond(r) ==
    /\ status' = r.status
    /\ detail' = r.detail
    /\ body' = r.body

\* A request arrives: the framework resolves current_user and pilot_id and
\* enters the handler of the route
Request(e, u, p) ==
    /\ pc = "idle"
    /\ pc' = "verify"
    /\ endpoint' = e
    /\ current_user' = u
    /\ pilot_id' = p
    /\ UNCHANGED <<status, detail, body, events, store, gear>>

\* if not await verify_pilot_ownership(...): raise HTTPException(404, ...)
ownership_step ==
    LET res == verify_pilot_ownership(pilots, pilot_id, current_user)
        a == after_ownership(res)
    IN  /\ pc' = a.next
        /\ respond(a.response)
        /\ events' = Append(events,
               IF res.raised THEN "ownership_raised"
               ELSE IF res.value THEN "ownership_true" ELSE "ownership_false")
        /\ UNCHANGED <<endpoint, current_user, pilot_id, store, gear>>

\* (variant: the query started together with the ownership check)
query_enabled_early == pc \in {"verify", "query"}

\* The handler issues its reputation query once the awaited ownership check
\* has let it through
query_enabled == pc = "query"

list_pilot_reputation_check ==
    /\ pc = "verify"
    /\ endpoint = "reputation"
    /\ ownership_step

list_pilot_reputation_query ==
    /\ query_enabled
    /\ endpoint = "reputation"
    /\ \E data \in pilot_reputation_select(reputation_changes, corporations, pilot_id) :
           respond(list_pilot_reputation_response(data))
    /\ pc' = "done"
    /\ events' = Append(events, "read_pilot_reputation")
    /\ UNCHANGED <<endpoint, current_user, pilot_id, store, gear>>

list_pilot_reputation_history_check ==
    /\ pc = "verify"
    /\ endpoint = "history"
    /\ ownership_step

\* (variant: the history read also removes the rows it returned)
list_pilot_reputation_history_query_consuming ==
    /\ query_enabled
    /\ endpoint = "history"
    /\ \E data \in reputation_changes_select(reputation_changes, corporations, pilot_id) :
           respond(list_pilot_reputation_history_response(data))
    /\ pc' = "done"
    /\ events' = Append(events, "read_reputation_changes")
    /\ reputation_changes' =
           SelectSeq(reputation_changes, LAMBDA r : r.pilot_id # pilot_id)
    /\ UNCHANGED <<endpoint, current_user, pilot_id, pilots, corporations, gear>>

list_pilot_reputation_history_query ==
    /\ query_enabled
    /\ endpoint = "history"
    /\ \E data \in reputation_changes_select(reputation_changes, corporations, pilot_id) :
           respond(list_pilot_reputation_history_response(data))
    /\ pc' = "done"
    /\ events' = Append(events, "read_reputation_changes")
    /\ UNCHANGED <<endpoint, current_user, pilot_id, store, gear>>

\* The response is sent and the request is over
Finish ==
    /\ pc = "done"
    /\ pc' = "idle"
    /\ endpoint' = "none"
    /\ current_user' = "none"
    /\ pilot_id' = "none"
    /\ respond(NoResponse)
    /\ events' = <<>>
    /\ UNCHANGED <<store, gear>>

Next ==
    \/ \E e \in Endpoints, u \in Users, p \in PilotIds : Request(e, u, p)
    \/ list_pilot_reputation_check
    \/ list_pilot_reputation_query
    \/ list_pilot_reputation_history_check
    \/ list_pilot_reputation_history_query
    \/ Finish

Spec == Init /\ [][Next]_vars

\* Construction of gear response objects, on its own
GearInit ==
    /\ pilots = {}
    /\ corporations = {}
    /\ reputation_changes = <<>>
    /\ RequestIdle
    /\ gear = NoGear

ConstructGear(kw) ==
    /\ gear' = ExoticGearWithLogInfo(kw)
    /\ UNCHANGED <<store, request>>

GearNext == \E kw \in GearKwargs : ConstructGear(kw)

GearSpec == GearInit /\ [][GearNext]_vars

----------------------------------------------------------------------------
(* Properties *)

Owned(u, p) == \E r \in pilots : r.id = p /\ r.user_id = u

OwnershipPassed == events # <<>> /\ events[1] = "ownership_true"

IsRead(e) == e \in {"read_pilot_reputation", "read_reputation_changes"}

Response == [status |-> status, detail |-> detail, body |-> body]

LedgerRowsOf(p) == { r \in Range(reputation_changes) : r.pilot_id = p }

\* C1: a request by a user who owns no pilots row of that id ends, on either
\* endpoint, with 404 "Pilot not found" and an empty body, and with nothing
\* else.
C1_NotOwnedIs404 ==
    (pc = "done" /\ ~Owned(current_user, pilot_id))
        => (status = 404 /\ detail = "Pilot not found" /\ body = <<>>)

\* The pilots tables that differ from tbl only in whether pilot p exists as a
\* row owned by a user other than u
ExistenceVariants(tbl, p, u) ==
    LET rest == { r \in tbl : r.id # p }
    IN  {rest} \cup { rest \cup {[id |-> p, user_id |-> v]} : v \in Users \ {u} }

\* C2: when the caller does not own the pilot, the response it observes is
\* the response the handler gives in every store that differs only in whether
\* the pilot exists under another owner: absence and foreign ownership look
\* the same.
C2_ExistenceNotObservable ==
    (pc = "done" /\ ~Owned(current_user, pilot_id))
        => \A tbl \in ExistenceVariants(pilots, pilot_id, current_user) :
               LET a == after_ownership(
                            verify_pilot_ownership(tbl, pilot_id, current_user))
               IN  a.next = "done" /\ a.response = Response

C2_Witness ==
    /\ pc = "done"
    /\ endpoint = "history"
    /\ ~Owned(current_user, pilot_id)
    /\ \E r \in pilots : r.id = pilot_id
    /\ LedgerRowsOf(pilot_id) # {}

\* C3: a successful history response is ordered by created_at descending:
\* each entry's created_at is at least that of the entry after it.
C3_HistoryNewestFirst ==
    (pc = "done" /\ endpoint = "history" /\ status = 200)
        => \A i \in 1..(Len(body) - 1) :
               body[i].created_at >= body[i + 1].created_at

\* two entries returned newest first although inserted oldest first
C3_Witness ==
    /\ pc = "done"
    /\ endpoint = "history"
    /\ status = 200
    /\ Len(body) >= 2
    /\ body[1].created_at > body[2].created_at
    /\ body[1].id > body[2].id

JoinHasName(cid) == \E c \in corporations : c.id = cid

\* C4: a history request that passed the ownership check succeeds, and every
\* returned row whose join to corporations gave no name carries
\* corporation_name "Unknown".
C4_UnknownPlaceholder ==
    (pc = "done" /\ endpoint = "history" /\ OwnershipPassed)
        => /\ status = 200
           /\ Len(body) = Cardinality(LedgerRowsOf(pilot_id))
           /\ \A i \in 1..Len(body) :
                  ~JoinHasName(body[i].corporation_id)
                      => body[i].corporation_name = "Unknown"

RECURSIVE LedgerSum(_, _, _)
LedgerSum(ledger, p, c) ==
    IF ledger = <<>> THEN 0
    ELSE (IF Head(ledger).pilot_id = p /\ Head(ledger).corporation_id = c
          THEN Head(ledger).change_value ELSE 0)
         + LedgerSum(Tail(ledger), p, c)

\* C5: for a pilot the caller owns and every corporation with at least one
\* ledger row for the pair, the aggregated response holds exactly one record
\* for the pair and its reputation_value is the sum of the pair's
\* change_value over the ledger.
C5_AggregateIsSum ==
    (pc = "done" /\ endpoint = "reputation" /\ OwnershipPassed)
        => /\ status = 200
           /\ \A c \in corporations :
                  (\E r \in LedgerRowsOf(pilot_id) : r.corporation_id = c.id)
                      => /\ Cardinality({ i \in 1..Len(body) :
                                 /\ body[i].pilot_id = pilot_id
                                 /\ body[i].corporation_id = c.id }) = 1
                         /\ \A i \in 1..Len(body) :
                                body[i].corporation_id = c.id
                                    => body[i].reputation_value =
                                         LedgerSum(reputation_changes, pilot_id, c.id)

\* two rows of opposite sign for one pair, summed, beside a second pair
C5_Witness ==
    /\ pc = "done"
    /\ endpoint = "reputation"
    /\ OwnershipPassed
    /\ \E i \in 1..Len(body) :
           /\ body[i].reputation_value = 3
           /\ Cardinality({ r \in LedgerRowsOf(pilot_id) :
                  r.corporation_id = body[i].corporation_id }) = 2

\* C6: for a pilot the caller owns that has no ledger rows, both endpoints
\* answer 200 with an empty list.
C6_OwnedWithoutChangesIsEmpty ==
    (pc = "done" /\ Owned(current_user, pilot_id) /\ LedgerRowsOf(pilot_id) = {})
        => (status = 200 /\ body = <<>>)

\* the pilot has no rows while the ledger holds rows of another pilot
C6_Witness ==
    /\ pc = "done"
    /\ endpoint \in Endpoints
    /\ Owned(current_user, pilot_id)
    /\ LedgerRowsOf(pilot_id) = {}
    /\ reputation_changes # <<>>
    /\ status = 200

\* C7: verify_pilot_ownership ends with a boolean: true when exactly one
\* pilots row has the id and the user as owner, false otherwise, and it never
\* raises.
C7_VerifyReturnsBoolean ==
    events # <<>>
        => events[1] =
             (IF Cardinality(pilots_select(pilots, pilot_id, current_user)) = 1
              THEN "ownership_true" ELSE "ownership_false")

\* C8: within a request, a reputation read comes only after the ownership
\* check has completed with a positive result; a request whose check did not
\* pass makes no reputation read.
C8_ReadOnlyAfterOwnership ==
    \A i \in 1..Len(events) :
        IsRead(events[i]) => (i > 1 /\ events[1] = "ownership_true")

C8_Witness ==
    /\ Len(events) = 2
    /\ events[1] = "ownership_true"
    /\ IsRead(events[2])

C10_IsLostIffLostLog ==
    gear.constructed => (gear.is_lost <=> gear.lost_log_id # "None")

====
